---- MODULE Spec2Model ----
(***************************************************************************)
(* Model of the polarbear indexing engine: the selector normaliser and the *)
(* indexing planner of polarbear/data/index.py, the Axes container built   *)
(* on them, the single-axis label algebra of polarbear/core/labels.py, and  *)
(* the Labels of polarbear/core/label.py that a DataSet is built on, and   *)
(* the View of polarbear/core/view.py.                                     *)
(*                                                                         *)
(* Python values are modelled as records:                                  *)
(*   token      [t, shp, v]   t is the Python type of the selector token,  *)
(*                            shp the shape of a list/ndarray token, v the *)
(*                            value of an integer atom                     *)
(*   selector   [tuple, items] the caller's selector; tuple = FALSE is a   *)
(*                            bare value (items holds that one value)      *)
(*   outcome    [exc, ...]    exc = "" is a normal return, otherwise the   *)
(*                            name of the Python exception that escaped    *)
(***************************************************************************)
EXTENDS Integers, Sequences, FiniteSets, TLC

\* ------------------------------------------------------------------ bounds
\* longest caller selector tuple
MaxLen == 3
\* largest number of dimensions of the labelled data
MaxDim == 3
\* labels are the integers 1..MaxLabel
MaxLabel == 3
\* most labels on one axis
MaxLabels == 3
\* largest size of a dimension of labelled data
MaxSize == 2
\* most dimensions of labelled data
MaxAxes == 2
\* most threads that look a label up on one axis at once
MaxThreads == 3

\* ------------------------------------------------------------------ tokens
NewAxis == [t |-> "None", shp |-> <<>>, v |-> 0]
Ell == [t |-> "Ellipsis", shp |-> <<>>, v |-> 0]
FullSlice == [t |-> "slice", shp |-> <<>>, v |-> 0]
Atom(k) == [t |-> "int", shp |-> <<>>, v |-> k]
NdArray(s) == [t |-> "ndarray", shp |-> s, v |-> 0]
List(s) == [t |-> "list", shp |-> s, v |-> 0]

\* the selector tokens a caller may write
Tokens ==
  {NewAxis, Ell, FullSlice, Atom(1), NdArray(<<2>>), List(<<2>>),
   NdArray(<<3>>), NdArray(<<2, 1>>)}

RECURSIVE SeqsUpTo(_, _)
SeqsUpTo(S, n) ==
  IF n = 0 THEN {<<>>}
  ELSE LET shorter == SeqsUpTo(S, n - 1)
       IN shorter \cup {Append(q, x) : q \in {r \in shorter : Len(r) = n - 1}, x \in S}

\* a caller's selector: a tuple of tokens, or a bare token
Selectors ==
  {[tuple |-> TRUE, items |-> q] : q \in SeqsUpTo(Tokens, MaxLen)}
    \cup {[tuple |-> FALSE, items |-> <<x>>] : x \in Tokens}

\* the shapes of the labelled data: (), (3,), (3, 4), (3, 4, 5), ...
ShapeOf(n) == [d \in 1..n |-> d + 2]
Shapes == {ShapeOf(n) : n \in 0..MaxDim}

\* ------------------------------------------------------------- outcomes
\* every outcome record carries exc: "" for a normal return, otherwise the
\* name of the exception that reached the caller

\* --------------------------------------------------------------- helpers
Max2(a, b) == IF a >= b THEN a ELSE b

RECURSIVE Repeat(_, _)
Repeat(x, n) == IF n <= 0 THEN <<>> ELSE <<x>> \o Repeat(x, n - 1)

\* isinstance(s, np.ndarray)
IsArray(s) == s.t = "ndarray"

\* np.array(s) of a list or an ndarray token
NpArray(s) == NdArray(s.shp)

\* ------------------------------------------------------------- normalise
\* the loop of normalise from item k on; atBack is `_at is back`
RECURSIVE NormaliseLoop(_, _, _, _, _, _)
NormaliseLoop(items, k, front, back, atBack, i) ==
  IF k > Len(items)
  THEN [exc |-> "", front |-> front, back |-> back, i |-> i]
  ELSE
    LET s == items[k]
        push(x, n) ==
          IF atBack
          THEN NormaliseLoop(items, k + 1, front, Append(back, x), atBack, n)
          ELSE NormaliseLoop(items, k + 1, Append(front, x), back, atBack, n)
    IN CASE s.t = "None" -> push(s, i)
         [] s.t = "Ellipsis" ->
              IF atBack
              THEN [exc |-> "IndexError", front |-> front, back |-> back, i |-> i]
              ELSE NormaliseLoop(items, k + 1, front, back, TRUE, i)
         [] s.t = "slice" -> push(s, i + 1)
         [] s.t \in {"list", "ndarray"} -> push(NpArray(s), i + 1)
         [] OTHER -> push(s, i + 1)

\* isinstance(items, tuple) or (items,)
AsTuple(sel) == IF sel.tuple THEN sel.items ELSE <<sel.items[1]>>

\* normalise with `i += 1` also in the newaxis branch
normaliseCountsNewaxis(sel, shape) ==
  LET loop == NormaliseLoop(AsTuple(sel), 1, <<>>, <<>>, FALSE, 0)
      nones == Cardinality({k \in 1..Len(AsTuple(sel)) : AsTuple(sel)[k].t = "None"})
  IN IF loop.exc # ""
     THEN [exc |-> loop.exc, val |-> <<>>]
     ELSE [exc |-> "",
           val |-> loop.front
                     \o Repeat(FullSlice, Len(shape) - loop.i - nones)
                     \o loop.back]

\* the loop of normalise without the `_at is back` test
RECURSIVE NormaliseLoopLax(_, _, _, _, _, _)
NormaliseLoopLax(items, k, front, back, atBack, i) ==
  IF k > Len(items)
  THEN [exc |-> "", front |-> front, back |-> back, i |-> i]
  ELSE
    LET s == items[k]
        push(x, n) ==
          IF atBack
          THEN NormaliseLoopLax(items, k + 1, front, Append(back, x), atBack, n)
          ELSE NormaliseLoopLax(items, k + 1, Append(front, x), back, atBack, n)
    IN CASE s.t = "None" -> push(s, i)
         [] s.t = "Ellipsis" -> NormaliseLoopLax(items, k + 1, front, back, TRUE, i)
         [] s.t \in {"list", "ndarray"} -> push(NpArray(s), i + 1)
         [] OTHER -> push(s, i + 1)

\* normalise that lets a second ellipsis through
normaliseLax(sel, shape) ==
  LET loop == NormaliseLoopLax(AsTuple(sel), 1, <<>>, <<>>, FALSE, 0)
  IN [exc |-> "",
      val |-> loop.front \o Repeat(FullSlice, Len(shape) - loop.i) \o loop.back]

normalise(sel, shape) ==
  LET loop == NormaliseLoop(AsTuple(sel), 1, <<>>, <<>>, FALSE, 0)
  IN IF loop.exc # ""
     THEN [exc |-> loop.exc, val |-> <<>>]
     ELSE [exc |-> "",
           val |-> loop.front \o Repeat(FullSlice, Len(shape) - loop.i) \o loop.back]

\* ------------------------------------------------------------- broadcast
\* size of shape s at position p of an n-dimensional trailing alignment
DimAt(s, p, n) == IF p <= n - Len(s) THEN 1 ELSE s[p - (n - Len(s))]

RECURSIVE MaxNdim(_)
MaxNdim(shps) ==
  IF shps = <<>> THEN 0 ELSE Max2(Len(Head(shps)), MaxNdim(Tail(shps)))

\* the sizes other than 1 that the shapes hold at aligned position p
Stretch(shps, p) ==
  {DimAt(shps[k], p, MaxNdim(shps)) : k \in 1..Len(shps)} \ {1}

\* np.broadcast_arrays accepts the shapes
Broadcastable(shps) ==
  \A p \in 1..MaxNdim(shps) : Cardinality(Stretch(shps, p)) <= 1

\* the common shape np.broadcast_arrays gives every array
BroadcastShape(shps) ==
  [p \in 1..MaxNdim(shps) |->
     IF Stretch(shps, p) = {} THEN 1 ELSE CHOOSE d \in Stretch(shps, p) : TRUE]

\* -------------------------------------------------------------- indexing
\* the namedtuple Selector
Selector(itarget, iselect, selector, ndim) ==
  [itarget |-> itarget, iselect |-> iselect, selector |-> selector, ndim |-> ndim]

\* 1 < sum(isinstance(s, np.ndarray) for s in selection)
Advanced(selection) ==
  1 < Cardinality({k \in 1..Len(selection) : IsArray(selection[k])})

\* the loop of indexing from token k on (j = k - 1); adv holds the
\* (i, j, s) triples as Selector records whose ndim is not set yet
RECURSIVE IndexingLoop(_, _, _, _, _, _)
IndexingLoop(selection, advanced, k, i, adv, out) ==
  IF k > Len(selection)
  THEN [adv |-> adv, out |-> out]
  ELSE
    LET s == selection[k]
        j == k - 1
    IN CASE s.t = "None" ->
              IndexingLoop(selection, advanced, k + 1, i, adv,
                           Append(out, Selector(-1, j, s, 1)))
         [] IsArray(s) /\ advanced ->
              IndexingLoop(selection, advanced, k + 1, i + 1,
                           Append(adv, Selector(i, j, s, 0)), out)
         [] s.t = "slice" \/ IsArray(s) ->
              IndexingLoop(selection, advanced, k + 1, i + 1, adv,
                           Append(out, Selector(i, j, s,
                                                IF IsArray(s) THEN Len(s.shp) ELSE 1)))
         [] OTHER ->
              IndexingLoop(selection, advanced, k + 1, i + 1, adv,
                           Append(out, Selector(i, j, s, 0)))

\* the broadcast of adv left out: every record keeps its own array
BroadcastAdvOwn(adv) ==
  LET shps == [k \in 1..Len(adv) |-> adv[k].selector.shp]
  IN IF ~Broadcastable(shps) THEN [exc |-> "ValueError", adv |-> <<>>]
     ELSE IF adv = <<>> THEN [exc |-> "ValueError", adv |-> <<>>]
     ELSE [exc |-> "",
           adv |-> [k \in 1..Len(adv) |->
                      Selector(adv[k].itarget, adv[k].iselect,
                               adv[k].selector,
                               0 - Len(adv[k].selector.shp))]]

\* the broadcast of adv with arrays that stretch to any size
BroadcastAdvAnySize(adv) ==
  LET shps == [k \in 1..Len(adv) |-> adv[k].selector.shp]
  IN IF adv = <<>> THEN [exc |-> "ValueError", adv |-> <<>>]
     ELSE [exc |-> "",
           adv |-> [k \in 1..Len(adv) |->
                      Selector(adv[k].itarget, adv[k].iselect,
                               NdArray(BroadcastShape(shps)),
                               0 - Len(BroadcastShape(shps)))]]

\* lines 105-108: broadcast the arrays of adv and stamp -nmax on each
\* record; max() of no array at all raises ValueError
BroadcastAdv(adv) ==
  LET shps == [k \in 1..Len(adv) |-> adv[k].selector.shp]
  IN IF ~Broadcastable(shps) THEN [exc |-> "ValueError", adv |-> <<>>]
     ELSE IF adv = <<>> THEN [exc |-> "ValueError", adv |-> <<>>]
     ELSE [exc |-> "",
           adv |-> [k \in 1..Len(adv) |->
                      Selector(adv[k].itarget, adv[k].iselect,
                               NdArray(BroadcastShape(shps)),
                               0 - Len(BroadcastShape(shps)))]]

indexing(sel, shape) ==
  LET selection == normalise(sel, shape)
  IN IF selection.exc # ""
     THEN [exc |-> selection.exc, adv |-> <<>>, out |-> <<>>]
     ELSE
       LET loop == IndexingLoop(selection.val, Advanced(selection.val),
                                1, 0, <<>>, <<>>)
           bcst == BroadcastAdv(loop.adv)
       IN IF bcst.exc # ""
          THEN [exc |-> bcst.exc, adv |-> <<>>, out |-> <<>>]
          ELSE [exc |-> "", adv |-> bcst.adv, out |-> loop.out]

\* ------------------------------------------------------------------ Axes
\* the outcome of Axes.iselect: fetched lists the axes of the receiver that
\* tuple.__getitem__ handed out before the call ended, each as the position
\* of the axis and the iselect of the record it was fetched for; oaxes are
\* the result axes as [kind, size] records and itup the mapped selection
IselectOutcome(e, fetched, oaxes, itup) ==
  [exc |-> e, fetched |-> fetched, oaxes |-> oaxes, itup |-> itup]

\* Axes.__new__(cls, *args) given the Python types of args: the assert
\* wants every argument to be an Axis
Axes__new__(args) ==
  IF \A k \in 1..Len(args) : args[k] = "Axis" THEN "" ELSE "AssertionError"

\* Axes.__getitem__(item) for an integer item on axes of the given shape:
\* tuple.__getitem__ resolves a negative item from the end, and the Axis it
\* returns is then unpacked by Axes(*axis), which needs an iterable
Axes__getitem__(shape, item) ==
  LET p == IF item < 0 THEN item + Len(shape) ELSE item
  IN IF p < 0 \/ p >= Len(shape)
     THEN [exc |-> "IndexError", axis |-> -1]
     ELSE [exc |-> "TypeError", axis |-> p]

\* `for _ in tup` works: a tuple, a list or an array can be iterated
Iterable(sel) == sel.tuple \/ sel.items[1].t \in {"list", "ndarray"}

\* Axes.iselect that gives up the loop at the first axis that fails and
\* returns what it has: no axis yet, and out as it was made, one None for
\* every item of tup
iselectPartial(sel, shape) ==
  IF ~Iterable(sel) THEN IselectOutcome("TypeError", <<>>, <<>>, <<>>)
  ELSE
    LET plan == indexing(sel, shape)
    IN IF plan.exc # "" THEN IselectOutcome(plan.exc, <<>>, <<>>, <<>>)
       ELSE IF plan.out # <<>>
         THEN IselectOutcome("", <<>>, <<>>, Repeat(NewAxis, Len(sel.items)))
         ELSE IselectOutcome(Axes__new__(<<"list">>), <<>>, <<>>, <<>>)

\* Axes.iselect(tup) on axes of the given shape. The first statement of the
\* loop body, self[sel.itarget], raises for every record, so the loop ends
\* in its first iteration and Axis.apply is never called; without a record
\* the list oaxes itself is handed to Axes() as its only argument.
iselect(sel, shape) ==
  IF ~Iterable(sel) THEN IselectOutcome("TypeError", <<>>, <<>>, <<>>)
  ELSE
    LET plan == indexing(sel, shape)
    IN IF plan.exc # "" THEN IselectOutcome(plan.exc, <<>>, <<>>, <<>>)
       ELSE IF plan.out # <<>>
         THEN LET ax == Axes__getitem__(shape, plan.out[1].itarget)
              IN IselectOutcome(
                   ax.exc,
                   IF ax.axis < 0 THEN <<>>
                   ELSE <<[axis |-> ax.axis, iselect |-> plan.out[1].iselect]>>,
                   <<>>, <<>>)
         ELSE IselectOutcome(Axes__new__(<<"list">>), <<>>, <<>>, <<>>)

\* ---------------------------------------------------------------- Labels
\* Labels.select(item) of core/label.py: plans, prints the plan, and
\* falls off the end of the function. indexing is the planner of
\* data/index.py, the only function of that name (core/index.py, from
\* which core/label.py imports it, does not define one).
Labels_select(sel, shape) ==
  LET plan == indexing(sel, shape)
  IN IF plan.exc # "" THEN [exc |-> plan.exc, val |-> "None"]
     ELSE [exc |-> "", val |-> "None"]

\* DataSet.__getitem__(item): unpacks what Labels.select returned; labels
\* and data are the shapes of the labels and of the data of the DataSet
\* it returns
DataSet__getitem__(sel, shape) ==
  LET r == Labels_select(sel, shape)
  IN IF r.exc # "" THEN [exc |-> r.exc, labels |-> <<>>, data |-> <<>>]
     ELSE IF r.val = "None" THEN [exc |-> "TypeError", labels |-> <<>>, data |-> <<>>]
     ELSE [exc |-> "", labels |-> <<>>, data |-> <<>>]

\* ------------------------------------------------- Labels of core/label.py
\* what a caller hands over as the labels of one axis: None, or a list of
\* labels; labels are written as integers
NoData == [t |-> "None", vals |-> <<>>]
ListData(vals) == [t |-> "list", vals |-> vals]

\* a Python tuple of integers as a value, apart from the integer itself
Tuple(s) == [t |-> "tuple", shp |-> s, v |-> 0]

\* Index.__init__(values): values is given by its shape; the labels are
\* kept by that shape after the assert on its number of dimensions
Index__init__(values) ==
  IF Len(values) # 1 THEN [exc |-> "AssertionError", arr |-> <<>>]
  ELSE [exc |-> "", arr |-> values]

\* Axis.new(data, size): data without a length or of another length than
\* size is repeated size times, np.array([data for _ in range(size)]),
\* which has the shape (0,) for size 0, (size,) for None and
\* (size, len(data)) for a list
Axis_new(data, size) ==
  IF data.t = "None" \/ Len(data.vals) # size
  THEN Index__init__(IF size = 0 THEN <<0>>
                     ELSE IF data.t = "None" THEN <<size>>
                     ELSE <<size, Len(data.vals)>>)
  ELSE Index__init__(<<Len(data.vals)>>)

\* Index.size: the shape of the array of labels
Index_size(ax) == Tuple(ax.arr)

\* Labels.shape of a tuple of axes
Labels_shape(axes) == [k \in 1..Len(axes) |-> Index_size(axes[k])]

\* Labels.__new__(cls, shape, *axes): the axes that were given are made
\* first, then the dimensions left are filled with NoLabel, a name that
\* is defined nowhere
Labels__new__(shp, axes) ==
  IF Len(axes) > Len(shp)
  THEN [exc |-> "IndexError", axes |-> <<>>, shape |-> <<>>]
  ELSE
    LET made == [k \in 1..Len(axes) |-> Axis_new(axes[k], shp[k])]
    IN IF \E k \in 1..Len(axes) : made[k].exc # ""
       THEN [exc |-> "AssertionError", axes |-> <<>>, shape |-> <<>>]
       ELSE IF Len(axes) < Len(shp)
       THEN [exc |-> "NameError", axes |-> <<>>, shape |-> <<>>]
       ELSE LET out == [k \in 1..Len(axes) |->
                          [kind |-> "Index", arr |-> made[k].arr]]
            IN [exc |-> "", axes |-> out, shape |-> Labels_shape(out)]

\* DataSet(data, labels).shape for data of the shape shp: __init__ makes
\* Labels(self.data.shape, *labels), shape returns self.labels.shape
DataSet_shape(shp, labels) ==
  [exc |-> Labels__new__(shp, labels).exc,
   shape |-> Labels__new__(shp, labels).shape]

\* ------------------------------------------------- View of core/view.py
\* a Python value by its type and, for an array or a nested list, its
\* number of dimensions; "SubView" is a class derived from View, "object"
\* a class that is not
PyValue(t, ndim) == [t |-> t, ndim |-> ndim]

\* type.__instancecheck__(cls, instance): the type of the instance is cls
\* or derives from it
Type__instancecheck__(cls, instance) ==
  instance.t = cls \/ (cls = "View" /\ instance.t = "SubView")

\* _MetaView.__instancecheck__ without the case of the arrays
InstanceCheckPlain(cls, instance) == Type__instancecheck__(cls, instance)

\* _MetaView.__instancecheck__(cls, instance)
InstanceCheck(cls, instance) ==
  IF cls = "View" /\ instance.t = "ndarray" THEN TRUE
  ELSE Type__instancecheck__(cls, instance)

\* _MetaView.new(cls, data), which view(data) calls on View: convert_from
\* is the set of the types that have a converter; what a converter returns
\* is its own business ("converted")
View_new(data, convert_from) ==
  IF InstanceCheck("View", data)
  THEN [exc |-> "", t |-> data.t, ndim |-> data.ndim]
  ELSE IF data.t \in convert_from
  THEN [exc |-> "", t |-> "converted", ndim |-> data.ndim]
  ELSE [exc |-> "", t |-> "ndarray", ndim |-> data.ndim]

\* ----------------------------------------------------------- single axis
\* the outcome of a selection on one axis: axis is the type of the axis
\* returned ("None" when the axis vanishes), fresh tells that it is a new
\* object and not the receiver, item is the positional selector
AxisOutcome(e, axis, fresh, item) ==
  [exc |-> e, axis |-> axis, fresh |-> fresh, item |-> item]

\* Passthrough.select1d without the isinstance(s, int) case
Passthrough_select1d_keep(s) == AxisOutcome("", "Passthrough", TRUE, s)

\* Passthrough.select1d(s)
Passthrough_select1d(s) ==
  IF s.t = "int" THEN AxisOutcome("", "None", FALSE, s)
  ELSE AxisOutcome("", "Passthrough", TRUE, s)

\* Axis.select without the test on the length of the tuple: item[0] of
\* an empty tuple raises IndexError, of a longer one is its first item
Axis_select_first(sel) ==
  IF sel.tuple /\ Len(sel.items) = 0
  THEN AxisOutcome("IndexError", "None", FALSE, NewAxis)
  ELSE Passthrough_select1d(sel.items[1])

\* Axis.select(item) on a Passthrough
Axis_select(sel) ==
  IF sel.tuple
  THEN IF Len(sel.items) # 1
       THEN AxisOutcome("IndexError", "None", FALSE, NewAxis)
       ELSE Passthrough_select1d(sel.items[1])
  ELSE Passthrough_select1d(sel.items[1])

\* the abstract methods a class of core/labels.py leaves without an
\* implementation: Labels declares select and at, Axis declares select1d
\* and dtype and implements select; Passthrough implements the three
\* left, Sorted implements dtype and select1d, Array none
AbstractMethods(cls) ==
  CASE cls = "Passthrough" -> {}
    [] cls = "Sorted" -> {"at"}
    [] cls = "Array" -> {"select1d", "at", "dtype"}
    [] OTHER -> {"select", "at"}

\* cls(...) under ABCMeta: a class with abstract methods left cannot be
\* instantiated
Instantiate(cls) == IF AbstractMethods(cls) = {} THEN "" ELSE "TypeError"

\* the outcome of a selection by label on one axis: positions are the
\* positions selected, in the order returned
LabelOutcome(e, axis, positions) ==
  [exc |-> e, axis |-> axis, positions |-> positions]

\* Sorted.select1d(s): the body is a docstring, the call returns None
Sorted_select1d(data, s) == "None"

\* Axis.select1d(s), which Array inherits: the body is pass
Array_select1d(data, s) == "None"

\* cls(data).select(s) for a label s that is not a tuple: the constructor,
\* then Axis.select, which unpacks what select1d returned
Labelled_select(cls, data, s) ==
  IF Instantiate(cls) # "" THEN LabelOutcome(Instantiate(cls), "None", <<>>)
  ELSE LET r == IF cls = "Sorted" THEN Sorted_select1d(data, s)
                ELSE Array_select1d(data, s)
       IN IF r = "None" THEN LabelOutcome("TypeError", "None", <<>>)
          ELSE LabelOutcome("", cls, <<>>)

\* axis = Array(labels), then n threads that each call axis.select(s) for
\* their first lookup: the constructor runs before any thread is started,
\* and where it raises no thread runs. builds counts the label-to-position
\* maps made (the class makes none), observed holds what each thread got.
Array_concurrent(labels, s, n) ==
  IF Instantiate("Array") # ""
  THEN [exc |-> Instantiate("Array"), builds |-> 0, observed |-> <<>>]
  ELSE [exc |-> "", builds |-> 0,
        observed |-> [t \in 1..n |-> Labelled_select("Array", labels, s)]]

\* DataSet(data, labels)[keys, lo:hi] for data of the shape shp, a list of
\* row labels and a slice of column labels: the constructor makes the
\* Labels, __getitem__ selects on them. The planner reads the type of a
\* token and the shape of an array, not the bounds of a slice or the
\* labels in a list.
DataSet_getitem_labels(shp, labels, keys) ==
  LET made == Labels__new__(shp, labels)
  IN IF made.exc # ""
     THEN [exc |-> made.exc, rows |-> <<>>, cols |-> <<>>]
     ELSE [exc |-> DataSet__getitem__(
                     [tuple |-> TRUE,
                      items |-> <<List(<<Len(keys)>>), FullSlice>>],
                     made.shape).exc,
           rows |-> <<>>, cols |-> <<>>]

\* Passthrough.at that gives up the axis for an integer, as select1d does
Passthrough_at_unit(item) ==
  IF ~item.tuple /\ item.items[1].t = "int"
  THEN [exc |-> "", axis |-> "None", fresh |-> FALSE]
  ELSE [exc |-> "", axis |-> "Passthrough", fresh |-> TRUE]

\* Passthrough.at(item): a new Passthrough, whatever the item
Passthrough_at(item) == [exc |-> "", axis |-> "Passthrough", fresh |-> TRUE]

\* the names an instance of a class of core/labels.py answers to: the
\* methods and properties of the class and of its bases, and what
\* __init__ sets. Passthrough has no __init__ and takes no argument.
Attributes(cls) ==
  CASE cls = "Passthrough" -> {"new", "select", "select1d", "at", "dtype"}
    [] cls = "Sorted" -> {"new", "select", "select1d", "at", "dtype", "data"}
    [] cls = "Array" -> {"new", "select", "select1d", "at", "dtype"}
    [] OTHER -> {}

\* getattr(axis, name) on an instance of cls
GetAttr(cls, name) ==
  IF name \in Attributes(cls) THEN "" ELSE "AttributeError"

\* slice(0, 0), a slice that selects nothing; its shp (0,) tells it from
\* slice(None)
EmptySlice == [t |-> "slice", shp |-> <<0>>, v |-> 0]

\* cls(labels).select(item) for a positional item, on any class of axis
\* of core/labels.py; Passthrough() takes no labels
Class_select(cls, labels, item) ==
  IF cls = "Passthrough"
  THEN Axis_select([tuple |-> FALSE, items |-> <<item>>])
  ELSE Labelled_select(cls, labels, item)

\* ------------------------------------------------------------------ state
VARIABLES
  shape,   \* the shape of the labelled data
  sel,     \* the caller's selector
  op,      \* the operation that has run on (sel, shape), "" before
  res,     \* its outcome
  arg      \* what else the operation is given: labels, a key, axes

vars == <<shape, sel, op, res, arg>>

\* sequences of labels, labels being written as integers
LabelSeqs == SeqsUpTo(1..MaxLabel, MaxLabels)

\* the strictly increasing ones
Increasing(l) == \A i, j \in 1..Len(l) : i < j => l[i] < l[j]

\* a class of axis, its labels and the label looked up
AxisInputs ==
  {[kind |-> "axis", cls |-> c, labels |-> l, key |-> k] :
     c \in {"Sorted", "Array"}, l \in LabelSeqs, k \in 1..(MaxLabel + 1)}

\* the data of one axis: None or the list 1, ..., m
AxisDatas == {NoData} \cup {ListData([k \in 1..m |-> k]) : m \in 0..MaxSize}

\* the axes handed to Labels
LabelsInputs ==
  {[kind |-> "labels", axes |-> a] : a \in SeqsUpTo(AxisDatas, MaxAxes + 1)}

\* the shapes of the data they label
DataShapes == SeqsUpTo(0..MaxSize, MaxAxes)

\* a data set with increasing row labels and the column labels
\* 1, ..., MaxLabel, the row labels listed and the slice lo:hi of column
\* labels
DataSetInputs ==
  {[kind |-> "dataset", rows |-> r, cols |-> [k \in 1..MaxLabel |-> k],
    keys |-> ks, lo |-> lo, hi |-> hi] :
     r \in {l \in LabelSeqs : l # <<>> /\ Increasing(l)},
     ks \in SeqsUpTo(1..MaxLabel, 2) \ {<<>>},
     lo \in 1..(MaxLabel + 1), hi \in 1..(MaxLabel + 1)}

\* a class of axis, its labels, and a selector that selects nothing
EmptyInputs ==
  {[kind |-> "empty", cls |-> c, labels |-> l, item |-> x] :
     c \in {"Passthrough", "Sorted", "Array"},
     l \in {l \in LabelSeqs : Increasing(l)},
     x \in {EmptySlice, NdArray(<<0>>), List(<<0>>)}}

\* a class, a value to test against it or to view, and the types that
\* have a converter
ViewInputs ==
  {[kind |-> "view", cls |-> c, value |-> x, convert_from |-> cf] :
     c \in {"View", "SubView"},
     x \in {PyValue("ndarray", n) : n \in 0..MaxDim}
             \cup {PyValue("list", n) : n \in 1..MaxDim}
             \cup {PyValue("SubView", n) : n \in 0..MaxDim}
             \cup {PyValue("int", 0), PyValue("object", 0)},
     cf \in {{}, {"list"}}}

\* the labels of an Array axis, the label looked up and the number of
\* threads that look it up
ThreadInputs ==
  {[kind |-> "threads", labels |-> l, key |-> k, n |-> n] :
     l \in LabelSeqs, k \in 1..(MaxLabel + 1), n \in 2..MaxThreads}

NoSelector == [tuple |-> TRUE, items |-> <<>>]

Init ==
  /\ op = ""
  /\ res = [exc |-> ""]
  /\ \/ /\ arg = [kind |-> "selection"]
        /\ shape \in Shapes
        /\ sel \in Selectors
     \/ /\ arg \in AxisInputs
        /\ shape = <<Len(arg.labels)>>
        /\ sel = NoSelector
     \/ /\ arg \in EmptyInputs
        /\ shape = <<Len(arg.labels)>>
        /\ sel = NoSelector
     \/ /\ arg \in ViewInputs
        /\ shape = <<>>
        /\ sel = NoSelector
     \/ /\ arg \in ThreadInputs
        /\ shape = <<Len(arg.labels)>>
        /\ sel = NoSelector
     \/ /\ arg \in LabelsInputs
        /\ shape \in DataShapes
        /\ sel = NoSelector
     \/ /\ arg \in DataSetInputs
        /\ \A k \in 1..Len(arg.keys) :
             \E i \in 1..Len(arg.rows) : arg.rows[i] = arg.keys[k]
        /\ arg.lo <= arg.hi
        /\ shape = <<Len(arg.rows), Len(arg.cols)>>
        /\ sel = NoSelector

Normalise ==
  /\ op = ""
  /\ arg.kind = "selection"
  /\ op' = "normalise"
  /\ res' = normalise(sel, shape)
  /\ UNCHANGED <<shape, sel, arg>>

Indexing ==
  /\ op = ""
  /\ arg.kind = "selection"
  /\ op' = "indexing"
  /\ res' = indexing(sel, shape)
  /\ UNCHANGED <<shape, sel, arg>>

Iselect ==
  /\ op = ""
  /\ arg.kind = "selection"
  /\ op' = "iselect"
  /\ res' = iselect(sel, shape)
  /\ UNCHANGED <<shape, sel, arg>>

LabelsSelect ==
  /\ op = ""
  /\ arg.kind = "selection"
  /\ op' = "Labels.select"
  /\ res' = Labels_select(sel, shape)
  /\ UNCHANGED <<shape, sel, arg>>

GetItem ==
  /\ op = ""
  /\ arg.kind = "selection"
  /\ op' = "DataSet.__getitem__"
  /\ res' = DataSet__getitem__(sel, shape)
  /\ UNCHANGED <<shape, sel, arg>>

AxisSelect ==
  /\ op = ""
  /\ arg.kind = "selection"
  /\ op' = "Axis.select"
  /\ res' = Axis_select(sel)
  /\ UNCHANGED <<shape, sel, arg>>

AxisAt ==
  /\ op = ""
  /\ arg.kind = "selection"
  /\ op' = "Passthrough.at"
  /\ res' = Passthrough_at(sel)
  /\ UNCHANGED <<shape, sel, arg>>

SortedSelect ==
  /\ op = ""
  /\ arg.kind = "axis"
  /\ arg.cls = "Sorted"
  /\ op' = "Sorted.select"
  /\ res' = Labelled_select("Sorted", arg.labels, arg.key)
  /\ UNCHANGED <<shape, sel, arg>>

ArraySelect ==
  /\ op = ""
  /\ arg.kind = "axis"
  /\ arg.cls = "Array"
  /\ op' = "Array.select"
  /\ res' = Labelled_select("Array", arg.labels, arg.key)
  /\ UNCHANGED <<shape, sel, arg>>

EmptySelect ==
  /\ op = ""
  /\ arg.kind = "empty"
  /\ op' = "select(empty)"
  /\ res' = Class_select(arg.cls, arg.labels, arg.item)
  /\ UNCHANGED <<shape, sel, arg>>

IsInstance ==
  /\ op = ""
  /\ arg.kind = "view"
  /\ op' = "isinstance"
  /\ res' = [exc |-> "", isinstance |-> InstanceCheck(arg.cls, arg.value)]
  /\ UNCHANGED <<shape, sel, arg>>

ViewOf ==
  /\ op = ""
  /\ arg.kind = "view"
  /\ op' = "view"
  /\ res' = View_new(arg.value, arg.convert_from)
  /\ UNCHANGED <<shape, sel, arg>>

ArrayConcurrent ==
  /\ op = ""
  /\ arg.kind = "threads"
  /\ op' = "Array.select x n"
  /\ res' = Array_concurrent(arg.labels, arg.key, arg.n)
  /\ UNCHANGED <<shape, sel, arg>>

LabelsNew ==
  /\ op = ""
  /\ arg.kind = "labels"
  /\ op' = "Labels"
  /\ res' = Labels__new__(shape, arg.axes)
  /\ UNCHANGED <<shape, sel, arg>>

DataSetShape ==
  /\ op = ""
  /\ arg.kind = "labels"
  /\ op' = "DataSet.shape"
  /\ res' = DataSet_shape(shape, arg.axes)
  /\ UNCHANGED <<shape, sel, arg>>

GetItemLabels ==
  /\ op = ""
  /\ arg.kind = "dataset"
  /\ op' = "DataSet[labels]"
  /\ res' = DataSet_getitem_labels(
              shape, <<ListData(arg.rows), ListData(arg.cols)>>, arg.keys)
  /\ UNCHANGED <<shape, sel, arg>>

Next ==
  \/ Normalise
  \/ Indexing
  \/ Iselect
  \/ LabelsSelect
  \/ GetItem
  \/ AxisSelect
  \/ AxisAt
  \/ SortedSelect
  \/ ArraySelect
  \/ EmptySelect
  \/ IsInstance
  \/ ViewOf
  \/ ArrayConcurrent
  \/ LabelsNew
  \/ DataSetShape
  \/ GetItemLabels

Spec == Init /\ [][Next]_vars
\* ============================================================ properties
\* what the caller wrote, token by token
Written == sel.items

NumEllipsis(items) ==
  Cardinality({k \in 1..Len(items) : items[k].t = "Ellipsis"})

\* the dimension-consuming tokens: all but newaxis and ellipsis
NumConsuming(items) ==
  Cardinality({k \in 1..Len(items) : items[k].t \notin {"None", "Ellipsis"}})

NumNotNewaxis(items) ==
  Cardinality({k \in 1..Len(items) : items[k].t # "None"})

\* the token as it stands in a normalised selector: a list has become the
\* array np.array makes of it, every other token is itself
Normalised(x) == IF x.t = "list" THEN NdArray(x.shp) ELSE x

\* the number of tokens written before the ellipsis, all of them when
\* there is no ellipsis
BeforeEllipsis(items) ==
  IF NumEllipsis(items) = 0 THEN Len(items)
  ELSE (CHOOSE k \in 1..Len(items) : items[k].t = "Ellipsis") - 1

\* C6: for a selector with at most one ellipsis and no more consuming
\* tokens than len(shape), normalise returns the caller's tokens (a list as
\* an array) in their original order, with the ellipsis replaced by - or,
\* without an ellipsis, followed by - exactly len(shape) minus the number
\* of consuming tokens full slices, so that the non-newaxis tokens of the
\* result number len(shape); a bare selector counts as the 1-tuple of it.
NormaliseResult ==
  (op = "normalise" /\ NumEllipsis(Written) <= 1
     /\ NumConsuming(Written) <= Len(shape)) =>
    LET e == BeforeEllipsis(Written)
        fill == Len(shape) - NumConsuming(Written)
        rest == Len(Written) - e - NumEllipsis(Written)
    IN /\ res.exc = ""
       /\ Len(res.val) = e + fill + rest
       /\ \A k \in 1..e : res.val[k] = Normalised(Written[k])
       /\ \A k \in 1..fill : res.val[e + k] = FullSlice
       /\ \A k \in 1..rest :
            res.val[e + fill + k] = Normalised(Written[e + NumEllipsis(Written) + k])
       /\ NumNotNewaxis(res.val) = Len(shape)

\* an ellipsis between a newaxis and a list has been replaced by two slices
NormaliseResultWitness ==
  /\ op = "normalise"
  /\ sel = [tuple |-> TRUE, items |-> <<NewAxis, Ell, List(<<2>>)>>]
  /\ shape = <<3, 4, 5>>
  /\ res.exc = ""
  /\ res.val = <<NewAxis, FullSlice, FullSlice, NdArray(<<2>>)>>

\* C8: every selector with more than one ellipsis, wherever they stand and
\* whatever the other tokens are, fails with the IndexError of normalise
\* ("an index can only have a single ellipsis"), in normalise and in the
\* planner that calls it, and no normalised selector is returned.
MultipleEllipsis ==
  /\ (op = "normalise" /\ NumEllipsis(Written) > 1) =>
       (res.exc = "IndexError" /\ res.val = <<>>)
  /\ (op = "indexing" /\ NumEllipsis(Written) > 1) =>
       (res.exc = "IndexError" /\ res.adv = <<>> /\ res.out = <<>>)

\* two ellipses that are not adjacent have been rejected
MultipleEllipsisWitness ==
  /\ op = "normalise"
  /\ sel = [tuple |-> TRUE, items |-> <<Ell, Atom(1), Ell>>]
  /\ res.exc = "IndexError"

Norm == normalise(sel, shape).val

\* the shapes of the array tokens of a token sequence, left to right
RECURSIVE ArrayShapes(_)
ArrayShapes(items) ==
  IF items = <<>> THEN <<>>
  ELSE (IF Head(items).t \in {"list", "ndarray"} THEN <<Head(items).shp>> ELSE <<>>)
         \o ArrayShapes(Tail(items))

\* a selector numpy accepts on data of shape shp: at most one ellipsis, no
\* more consuming tokens than dimensions, arrays that broadcast together
\* (the atom 1 and the index arrays are in range on every axis)
Valid(items, shp) ==
  /\ NumEllipsis(items) <= 1
  /\ NumConsuming(items) <= Len(shp)
  /\ Broadcastable(ArrayShapes(items))

ArrayAt(items) == {k \in 1..Len(items) : items[k].t = "ndarray"}
First(S) == CHOOSE k \in S : \A m \in S : k <= m
Last(S) == CHOOSE k \in S : \A m \in S : k >= m

\* the input axis the k-th token of a normalised selector consumes
AxisOf(items, k) == NumNotNewaxis(SubSeq(items, 1, k))

\* the output dimensions of the tokens lo..hi of a normalised selector that
\* are not array tokens: 1 for a newaxis, the axis for a full slice, none
\* for an atom
RECURSIVE BasicDims(_, _, _, _)
BasicDims(items, lo, hi, shp) ==
  IF lo > hi THEN <<>>
  ELSE (CASE items[lo].t = "None" -> <<1>>
          [] items[lo].t = "slice" -> <<shp[AxisOf(items, lo)]>>
          [] OTHER -> <<>>)
         \o BasicDims(items, lo + 1, hi, shp)

\* the shape of the broadcast block of the array tokens
BlockShape(items) == BroadcastShape(ArrayShapes(items))

\* the shape numpy gives buffer[items] for a buffer of shape shp and a
\* normalised selector: arrays and integers are its advanced indices; next
\* to each other they leave the block in place, otherwise it goes first
NumpyShape(items, shp) ==
  LET arrs == ArrayAt(items)
      advd == {k \in 1..Len(items) : items[k].t \in {"ndarray", "int"}}
  IN IF arrs = {} THEN BasicDims(items, 1, Len(items), shp)
     ELSE IF \A k \in First(advd)..Last(advd) : k \in advd
       THEN BasicDims(items, 1, First(advd) - 1, shp)
              \o BlockShape(items)
              \o BasicDims(items, Last(advd) + 1, Len(items), shp)
       ELSE BlockShape(items) \o BasicDims(items, 1, Len(items), shp)

\* the sizes of result axes
AxesShape(oaxes) == [k \in 1..Len(oaxes) |-> oaxes[k].size]

\* C1: for every valid selector, select returns result axes and a
\* positional selector such that the positional selector applied to a
\* buffer of the same shape gives data of the shape of the result axes;
\* so the DataSet that __getitem__ returns has labels of the shape of
\* its data.
ShapeConsistency ==
  /\ (op = "iselect" /\ sel.tuple /\ Valid(Written, shape)) =>
       (res.exc = "" /\ AxesShape(res.oaxes) = NumpyShape(res.itup, shape))
  /\ (op = "Labels.select" /\ Valid(Written, shape)) =>
       (res.exc = "" /\ res.val # "None")
  /\ (op = "DataSet.__getitem__" /\ Valid(Written, shape)) =>
       (res.exc = "" /\ res.labels = res.data)

\* C2: when a slice or an atom stands between two array tokens, the
\* dimensions of the broadcast block come first in the result, ahead of
\* every dimension of basic indexing; (array([0, 1]), slice(None),
\* array([0, 1])) on shape (3, 4, 5) gives the result shape (2, 4).
NonAdjacentRelocation ==
  (op = "iselect" /\ sel.tuple /\ Valid(Written, shape)
     /\ Cardinality(ArrayAt(Norm)) >= 2
     /\ \E k \in First(ArrayAt(Norm))..Last(ArrayAt(Norm)) :
          Norm[k].t \in {"slice", "int"}) =>
    /\ res.exc = ""
    /\ AxesShape(res.oaxes) =
         BlockShape(Norm) \o BasicDims(Norm, 1, Len(Norm), shape)

\* C3: when the array tokens stand next to each other, the dimensions of
\* the broadcast block stay at that place among the result dimensions;
\* (slice(None), array([0, 1]), array([0, 1])) on shape (3, 4, 5) gives
\* the result shape (3, 2).
AdjacentPreservation ==
  (op = "iselect" /\ sel.tuple /\ Valid(Written, shape)
     /\ Cardinality(ArrayAt(Norm)) >= 2
     /\ \A k \in First(ArrayAt(Norm))..Last(ArrayAt(Norm)) : k \in ArrayAt(Norm)) =>
    /\ res.exc = ""
    /\ AxesShape(res.oaxes) =
         BasicDims(Norm, 1, First(ArrayAt(Norm)) - 1, shape)
           \o BlockShape(Norm)
           \o BasicDims(Norm, Last(ArrayAt(Norm)) + 1, Len(Norm), shape)

\* the consuming tokens of the normalised selector, one per input axis
PerAxis == SelectSeq(Norm, LAMBDA x : x.t # "None")

\* C4: the positional selector of a selection holds one positional
\* sub-selector per input dimension, at the index of that dimension - the
\* token that consumes the dimension, an array token as an array - also
\* with newaxis tokens, an ellipsis or fewer tokens than dimensions.
InputAxisOrder ==
  (op = "iselect" /\ sel.tuple /\ Valid(Written, shape)) =>
    /\ res.exc = ""
    /\ Len(res.itup) = Len(shape)
    /\ \A d \in 1..Len(shape) :
         /\ res.itup[d].t = PerAxis[d].t
         /\ PerAxis[d].t # "ndarray" => res.itup[d] = PerAxis[d]

\* C7: a selector with more dimension-consuming tokens than len(shape)
\* fails with the too-many-indices IndexError and no normalised selector
\* is returned.
OverLengthSelector ==
  (op = "normalise" /\ NumConsuming(Written) > Len(shape)) =>
    (res.exc = "IndexError" /\ res.val = <<>>)

\* the records of a plan, both groups together
Records(plan) == plan.adv \o plan.out

\* C9: a newaxis token never consumes an input dimension and never
\* addresses an existing axis: its record has no target axis (-1) and one
\* output dimension, the other records target the axes 0, 1, ... in order,
\* and a selection fetches no axis of the receiver for a newaxis record;
\* the axes it returns hold one fresh Passthrough of size 1 per newaxis.
NewaxisNeverConsumes ==
  /\ (op = "indexing" /\ res.exc = "") =>
       /\ \A r \in 1..Len(res.out) :
            res.out[r].selector.t = "None" =>
              (res.out[r].itarget = -1 /\ res.out[r].ndim = 1)
       /\ {Records(res)[r].itarget : r \in 1..Len(Records(res))} \ {-1}
            = 0..(NumNotNewaxis(Norm) - 1)
  /\ (op = "iselect" /\ sel.tuple /\ Valid(Written, shape)) =>
       /\ \A f \in 1..Len(res.fetched) :
            Norm[res.fetched[f].iselect + 1].t # "None"
       /\ res.exc = "" =>
            Cardinality({k \in 1..Len(res.oaxes) :
                           res.oaxes[k] = [kind |-> "Passthrough", size |-> 1]})
              >= Cardinality({k \in 1..Len(Norm) : Norm[k].t = "None"})

\* C10: the planner is in advanced mode exactly when the normalised
\* selector holds two or more array tokens, lists included; with none or
\* one it completes with an empty advanced group and one basic record per
\* token, in order, the single array included.
ModeDetection ==
  (op = "indexing" /\ NumEllipsis(Written) <= 1) =>
    IF Len(ArrayShapes(Written)) >= 2
    THEN res.exc = "" => Len(res.adv) = Len(ArrayShapes(Written))
    ELSE /\ res.exc = ""
         /\ res.adv = <<>>
         /\ Len(res.out) = Len(Norm)
         /\ \A k \in 1..Len(Norm) :
              /\ res.out[k].iselect = k - 1
              /\ res.out[k].selector = Norm[k]
              /\ res.out[k].ndim >= 0
\* two shapes hold, at some position counted from the end, sizes that are
\* unequal and both different from 1
Conflict(a, b) ==
  \E p \in 1..Len(a) :
    /\ p <= Len(b)
    /\ a[Len(a) - p + 1] # b[Len(b) - p + 1]
    /\ a[Len(a) - p + 1] # 1
    /\ b[Len(b) - p + 1] # 1

\* C11: when two of the array tokens of an advanced selection (two or more
\* arrays, lists included) hold at the same trailing-aligned position sizes
\* that are unequal and both different from 1, planning fails with the
\* ValueError of np.broadcast_arrays and no record is returned.
BroadcastConflict ==
  (op = "indexing" /\ NumEllipsis(Written) <= 1
     /\ \E a, b \in 1..Len(ArrayShapes(Written)) :
          a # b /\ Conflict(ArrayShapes(Written)[a], ArrayShapes(Written)[b])) =>
    (res.exc = "ValueError" /\ res.adv = <<>> /\ res.out = <<>>)

\* arrays of 2 and of 3 indices around a slice have been refused
BroadcastConflictWitness ==
  /\ op = "indexing"
  /\ sel = [tuple |-> TRUE, items |-> <<NdArray(<<2>>), FullSlice, NdArray(<<3>>)>>]
  /\ shape = <<3, 4, 5>>
  /\ res.exc = "ValueError"
\* the selector is the identity: a full slice for every dimension, a bare
\* ellipsis, or nothing at all
IsIdentity(items, shp) ==
  \/ items = Repeat(FullSlice, Len(shp))
  \/ items = <<Ell>>
  \/ items = <<>>

\* C12: selecting with a full slice on every dimension, with an ellipsis
\* alone or with the empty selector returns axes of the shape of the
\* original and a positional selector that is a full slice on every
\* dimension; and the selection on labels returns a value for it.
IdentitySelection ==
  /\ (op = "iselect" /\ sel.tuple /\ Len(shape) >= 1
        /\ IsIdentity(Written, shape)) =>
       /\ res.exc = ""
       /\ AxesShape(res.oaxes) = shape
       /\ res.itup = Repeat(FullSlice, Len(shape))
  /\ (op = "Labels.select" /\ sel.tuple /\ IsIdentity(Written, shape)) =>
       (res.exc = "" /\ res.val # "None")
\* C17: selecting a list, a slice or an array on a Passthrough returns a
\* new Passthrough, not the receiver, that has a size, and the selector
\* itself as the positional selector.
PassthroughNonScalar ==
  (op = "Axis.select" /\ Len(Written) = 1
     /\ Written[1].t \in {"list", "slice", "ndarray"}) =>
    /\ res.exc = ""
    /\ res.axis = "Passthrough"
    /\ res.fresh
    /\ res.item = Written[1]
    /\ GetAttr(res.axis, "size") = ""

\* C18: Passthrough.at returns a Passthrough for every positional
\* selector, an integer included; it never gives None.
PassthroughAt ==
  op = "Passthrough.at" => (res.exc = "" /\ res.axis = "Passthrough")

\* at(1) has returned a Passthrough
PassthroughAtWitness ==
  /\ op = "Passthrough.at"
  /\ sel = [tuple |-> FALSE, items |-> <<Atom(1)>>]
  /\ res.axis = "Passthrough"
\* the positions, from 0, at which the label k stands in l, from i on
RECURSIVE PositionsFrom(_, _, _)
PositionsFrom(l, k, i) ==
  IF i > Len(l) THEN <<>>
  ELSE (IF l[i] = k THEN <<i - 1>> ELSE <<>>) \o PositionsFrom(l, k, i + 1)

Present(l, k) == \E i \in 1..Len(l) : l[i] = k

\* C13: on a Sorted axis made of strictly increasing labels, selecting
\* the label that stands at position i returns the position i.
SortedRoundTrip ==
  (op = "Sorted.select" /\ Increasing(arg.labels)
     /\ Present(arg.labels, arg.key)) =>
    (res.exc = "" /\ res.positions = PositionsFrom(arg.labels, arg.key, 1))

\* C14: selecting a label that is not on a Sorted or an Array axis fails
\* with LabelNotFound and returns neither an axis nor a position.
MissingLabel ==
  (op \in {"Sorted.select", "Array.select"}
     /\ (arg.cls = "Sorted" => Increasing(arg.labels))
     /\ ~Present(arg.labels, arg.key)) =>
    (res.exc = "LabelNotFound" /\ res.axis = "None" /\ res.positions = <<>>)

\* C15: on an Array axis, selecting a label that stands at several
\* positions returns all of them, in increasing order.
DuplicateLookup ==
  (op = "Array.select" /\ Present(arg.labels, arg.key)) =>
    (res.exc = "" /\ res.positions = PositionsFrom(arg.labels, arg.key, 1))

\* the positions of the labels of l that lie in the half-open lo..hi
RECURSIVE Between(_, _, _, _)
Between(l, lo, hi, i) ==
  IF i > Len(l) THEN <<>>
  ELSE (IF lo <= l[i] /\ l[i] < hi THEN <<i - 1>> ELSE <<>>)
         \o Between(l, lo, hi, i + 1)

\* C16: indexing a DataSet with a list of row labels and a slice lo:hi of
\* column labels selects the rows of the labels in the order listed and
\* the columns whose labels lie in the half-open range from lo to hi.
LabelIndexing ==
  op = "DataSet[labels]" =>
    /\ res.exc = ""
    /\ res.rows = [k \in 1..Len(arg.keys) |->
                     PositionsFrom(arg.rows, arg.keys[k], 1)[1]]
    /\ res.cols = Between(arg.cols, arg.lo, arg.hi, 1)

\* every axis given stands for a dimension and has its size, or is None
AxesMatch(axes, shp) ==
  \A k \in 1..Len(axes) :
    k <= Len(shp) => (axes[k].t = "None" \/ Len(axes[k].vals) = shp[k])

\* C19: Labels made for data of a shape holds one axis per dimension, the
\* axes not given being filled in, and the size of axis i is the size of
\* dimension i; with more axes than dimensions it fails with IndexError.
LabelsInvariant ==
  (op = "Labels" /\ AxesMatch(arg.axes, shape)) =>
    IF Len(arg.axes) > Len(shape) THEN res.exc = "IndexError"
    ELSE /\ res.exc = ""
         /\ Len(res.axes) = Len(shape)
         /\ \A k \in 1..Len(shape) : res.shape[k] = Atom(shape[k])

\* C20: an axis given with a number of labels other than the size of its
\* dimension fails with AxisMismatch, and no labels are made.
AxisMismatch ==
  (op = "Labels" /\ Len(arg.axes) <= Len(shape)
     /\ ~AxesMatch(arg.axes, shape)) =>
    (res.exc = "AxisMismatch" /\ res.axes = <<>>)
\* the largest number of a non-empty set of numbers
MaxOf(S) == CHOOSE m \in S : \A x \in S : m >= x

\* the shape the shapes shps broadcast to: as many dimensions as the
\* longest, each the largest size aligned there from the end
CommonShape(shps) ==
  LET n == MaxOf({Len(shps[k]) : k \in 1..Len(shps)})
  IN [p \in 1..n |-> MaxOf({DimAt(shps[k], p, n) : k \in 1..Len(shps)})]

\* C28: in advanced mode, when no two arrays conflict, the planner returns
\* one record per array token and every one of them carries the same
\* number of output dimensions, the negated number of dimensions of the
\* common broadcast shape, and an array of that common shape.
SharedBroadcastBlock ==
  (op = "indexing" /\ NumEllipsis(Written) <= 1
     /\ Len(ArrayShapes(Written)) >= 2
     /\ \A a, b \in 1..Len(ArrayShapes(Written)) :
          ~Conflict(ArrayShapes(Written)[a], ArrayShapes(Written)[b])) =>
    /\ res.exc = ""
    /\ Len(res.adv) = Len(ArrayShapes(Written))
    /\ \A k \in 1..Len(res.adv) :
         /\ res.adv[k].ndim = 0 - Len(CommonShape(ArrayShapes(Written)))
         /\ res.adv[k].selector = NdArray(CommonShape(ArrayShapes(Written)))

\* arrays of the shapes (2,) and (2, 1) have been broadcast to (2, 2)
SharedBroadcastBlockWitness ==
  /\ op = "indexing"
  /\ sel = [tuple |-> TRUE, items |-> <<NdArray(<<2>>), NdArray(<<2, 1>>)>>]
  /\ res.exc = ""
  /\ res.adv[1].ndim = -2
  /\ res.adv[1].selector = NdArray(<<2, 2>>)
\* C27: every record the planner returns for a token the caller wrote
\* carries the position of that token in the caller's selector: each token
\* written, the ellipsis apart, has a record with its position and its
\* type, and every record that is not a slice filled in stands at the
\* position of a token of its type.
OriginalPosition ==
  (op = "indexing" /\ sel.tuple /\ Valid(Written, shape) /\ res.exc = "") =>
    /\ \A p \in 1..Len(Written) :
         Written[p].t # "Ellipsis" =>
           \E k \in 1..Len(Records(res)) :
             /\ Records(res)[k].iselect = p - 1
             /\ Records(res)[k].selector.t = Normalised(Written[p]).t
    /\ \A k \in 1..Len(Records(res)) :
         Records(res)[k].selector.t # "slice" =>
           /\ Records(res)[k].iselect + 1 <= Len(Written)
           /\ Normalised(Written[Records(res)[k].iselect + 1]).t
                = Records(res)[k].selector.t
\* the records of a plan that are not for a newaxis
Targeting(plan) ==
  {k \in 1..Len(Records(plan)) : Records(plan)[k].selector.t # "None"}

\* what C26 says of a plan for a normalised selector on data of shape shp
Covers(plan, norm, shp) ==
  /\ Len(Records(plan)) = Len(norm)
  /\ \A a, b \in 1..Len(Records(plan)) :
       a # b => Records(plan)[a].iselect # Records(plan)[b].iselect
  /\ \A a, b \in Targeting(plan) :
       a # b => Records(plan)[a].itarget # Records(plan)[b].itarget
  /\ {Records(plan)[k].itarget : k \in Targeting(plan)} = 0..(Len(shp) - 1)
  /\ \A a, b \in Targeting(plan) :
       Records(plan)[a].iselect < Records(plan)[b].iselect
         => Records(plan)[a].itarget < Records(plan)[b].itarget

\* C26: for every selector the normaliser accepts (arrays that do not
\* broadcast together apart), the planner returns records, advanced and
\* basic together, that stand one for one for the tokens of the normalised
\* selector: the iselect are pairwise distinct, every record but those of
\* a newaxis has an itarget of its own, these itarget are exactly
\* 0..len(shape)-1 and they increase with iselect.
PlannerCoverage ==
  (op = "indexing" /\ NumEllipsis(Written) <= 1
     /\ Broadcastable(ArrayShapes(Written))) =>
    (res.exc = "" /\ Covers(res, Norm, shape))
\* C29: on a single axis (a Passthrough), select with a tuple of one
\* selector and select with the selector itself give the same axis and
\* positional selector, the ones the selector alone decides; a tuple of
\* any other length, the empty one included, fails with IndexError and
\* no axis has been made.
SingleAxisSelect ==
  op = "Axis.select" =>
    IF sel.tuple /\ Len(Written) # 1
    THEN res.exc = "IndexError" /\ res.axis = "None" /\ ~res.fresh
    ELSE /\ res.exc = ""
         /\ res.item = Written[1]
         /\ res.axis = (IF Written[1].t = "int" THEN "None" ELSE "Passthrough")
         /\ res.fresh = (Written[1].t # "int")

\* a tuple of two selectors has been refused
SingleAxisSelectWitness ==
  /\ op = "Axis.select"
  /\ sel = [tuple |-> TRUE, items |-> <<List(<<2>>), FullSlice>>]
  /\ res.exc = "IndexError"
\* the error of the first per-axis step of a selection, "" when the
\* planner gave no basic record or the step goes through
FirstAxisError(tup, shp) ==
  IF indexing(tup, shp).exc # "" \/ indexing(tup, shp).out = <<>> THEN ""
  ELSE Axes__getitem__(shp, indexing(tup, shp).out[1].itarget).exc

AxesBroadcast(axes, shp) ==
  /\ Len(axes) = Len(shp)
  /\ \A k \in 1..Len(axes) :
       \/ axes[k].t = "None"
       \/ Len(axes[k].vals) = shp[k]
       \/ shp[k] = 1

\* C21: the shape of a DataSet is the shape of its labels: an axis given
\* with labels counts its labels, also on a data dimension of size 1, and
\* an axis given as None counts the size of the data.
DataSetShapeOfLabels ==
  (op = "DataSet.shape" /\ AxesBroadcast(arg.axes, shape)) =>
    /\ res.exc = ""
    /\ Len(res.shape) = Len(shape)
    /\ \A k \in 1..Len(shape) :
         res.shape[k] = Atom(IF arg.axes[k].t = "None" THEN shape[k]
                             ELSE Len(arg.axes[k].vals))
\* C23: selecting with an empty slice or an empty array does not raise on
\* any class of axis, and returns an axis of the class of the receiver
\* that has a size, zero.
EmptySelection ==
  op = "select(empty)" =>
    /\ res.exc = ""
    /\ res.axis = arg.cls
    /\ GetAttr(res.axis, "size") = ""
\* C25: isinstance(x, View) is true of every numpy array, one without
\* dimensions included, and false of a value that is neither an array
\* nor an instance of a class derived from View; view(a) of an array is
\* an array.
ViewMembership ==
  /\ (op = "isinstance" /\ arg.cls = "View") =>
       (res.isinstance <=> arg.value.t \in {"ndarray", "SubView"})
  /\ (op = "view" /\ arg.value.t = "ndarray") =>
       (res.exc = "" /\ res.t = "ndarray")

\* an array without dimensions has been found to be a View
ViewMembershipWitness ==
  /\ op = "isinstance"
  /\ arg.cls = "View"
  /\ arg.value = PyValue("ndarray", 0)
  /\ res.isinstance
\* C24: when several threads make their first lookup of a label on one
\* Array axis at once, the label-to-position map is made at most once and
\* every thread gets its positions from the whole map.
AtMostOneBuild ==
  (op = "Array.select x n" /\ Present(arg.labels, arg.key)) =>
    /\ res.exc = ""
    /\ res.builds <= 1
    /\ Len(res.observed) = arg.n
    /\ \A t \in 1..Len(res.observed) :
         /\ res.observed[t].exc = ""
         /\ res.observed[t].positions = PositionsFrom(arg.labels, arg.key, 1)
====
